---- MODULE Spec2Model ----
(***************************************************************************)
(* Model of the Dgraph load-test harness (main.go): the shared sequence    *)
(* counter and the writer pool (runEventSimulator / addEvent), the         *)
(* validation engine (validate) with its per-node missing-count table, and *)
(* the tasks around them: the validation scheduler                         *)
(* (runValidationScheduler), the reporter (runReporting), the metrics      *)
(* handler (metrics) and main, which waits for the tasks and runs the      *)
(* final validation.                                                       *)
(*                                                                         *)
(* The backend (Dgraph alphas behind the GraphQL client) is external: every *)
(* response it gives (RPC error, payload, aggregate count, page of rows)   *)
(* is a nondeterministic input drawn from a small set.                     *)
(***************************************************************************)
EXTENDS Integers, Sequences, FiniteSets, TLC

\* ---------------------------------------------------------------- constants
\* Program constants, scaled down so that the state space is finite and small.
WORKERS == 2            \* const WORKERS = 5
MAX_EVENTS == 3         \* const MAX_EVENTS = 100000
NumServers == 2         \* len(servers) = 3
VALIDATION_INTERVAL == 1  \* const VALIDATION_INTERVAL = 2500
pageSize == 2           \* const pageSize = 1000 (validate)
SignBit == 8            \* stands for 2^63: uint64 values at or above it convert to negative ints

\* Bounds of the model (not in the program).
MaxEchoLen == 2         \* longest list of echoed records in a write response
MaxHwm == 2             \* largest aggregate count a node reports
MaxRows == 3            \* most rows a node returns over one enumeration
RunRows == 1            \* most rows a node returns while the whole program is run

servers == 1..NumServers
Workers == 1..WORKERS
NoOwner == 0            \* a sync.Mutex nobody holds

\* The goroutines other than the workers, as holders of a mutex.
Scheduler == WORKERS + 1   \* go runValidationScheduler(...)
Main == WORKERS + 2        \* main
Handler == WORKERS + 3     \* the goroutine serving a /metrics request
Tasks == Workers \cup {Scheduler, Main, Handler}

\* int(x) of a uint64 x (two's complement reinterpretation).
IntOf(u) == IF u >= SignBit THEN u - 2 * SignBit ELSE u

VARIABLES
  \* shared state of the program
  count,          \* var count uint64
  mu,             \* holder of mu (NoOwner when free)
  insertTimeMu,   \* holder of insertTimeMu
  insertTime,     \* keys of the map insertTime (the instants are not modelled)
  \* writer pool: one goroutine per worker
  pc,             \* pc[w]: where worker w is in runEventSimulator/addEvent
  value,          \* value[w]: addEvent's local `value`
  errLog,         \* errLog[w]: number of lines appended to error-<w>.log
  halted,         \* "no", or how the process ended: "panic", "exit"
  \* validation engine: validate(ctx, clients, final)
  vpc,            \* where validate is: "idle" (not running) .. "returned" (final pass over)
  final,          \* validate's parameter
  node,           \* the loop variable i over clients
  highWaterMark, seen, countSeen, outOfRange, missed, max, offset,   \* validate's locals
  events,         \* rows of the current page not yet processed
  verdict,        \* what validate printed for this node: "none", "mismatch", "passed", "failed", "duplicate"
  missingCount,   \* the map missingCount, by server (Absent: no entry)
  observed,       \* history: rows processed so far in this node's enumeration
  validated,      \* history: the nodes this call of validate has started on, in order
  missingCountMu, \* holder of missingCountMu
  \* runValidationScheduler
  spc,            \* "ticker" (waiting for a tick), "poll" (about to call getCount), "validating", "done"
  nextValidationAt,
  passes,         \* history: <<[threshold, sample]>> of the non-final passes started
  \* runReporting
  rpc,            \* "ticker", "done"
  remaining,      \* the reporter's local `remaining` (uint64), 0 before the first sample
  \* main
  mainpc,         \* "wait" (in wg.Wait), "final" (in validate(ctx, clients, true)), "exited"
  \* metrics (one request at a time)
  mpc,            \* "idle", "range" (in the loop over missingCount), "total"
  dbCount,        \* the handler's local dbCount
  mleft,          \* entries of missingCount the loop has still to yield
  \* history of the run
  issued,         \* reservations in issue order: <<[value, worker]>>
  attempts        \* write requests in the order they were sent: <<[value, worker]>>

writerVars == <<count, mu, insertTimeMu, insertTime, pc, value, errLog, issued, attempts>>
validateVars == <<vpc, final, node, highWaterMark, seen, countSeen, outOfRange, missed, max,
                  offset, events, verdict, missingCount, observed, validated>>
schedVars == <<spc, nextValidationAt, passes>>
reportVars == <<rpc, remaining>>
metricsVars == <<mpc, dbCount, mleft>>
taskVars == <<missingCountMu, mainpc, schedVars, reportVars, metricsVars>>
vars == <<count, mu, insertTimeMu, insertTime, pc, value, errLog, halted, issued, attempts,
          vpc, final, node, highWaterMark, seen, countSeen, outOfRange, missed, max,
          offset, events, verdict, missingCount, observed, validated,
          missingCountMu, mainpc, spc, nextValidationAt, passes,
          rpc, remaining, mpc, dbCount, mleft>>

\* Largest value the counter can reach: every worker stops after its first
\* reservation at or above MAX_EVENTS.
MaxCount == MAX_EVENTS + WORKERS

\* ------------------------------------------------------------- writer pool
InitWriters ==
  /\ count = 0
  /\ mu = NoOwner
  /\ insertTimeMu = NoOwner
  /\ insertTime = {}
  /\ pc = [w \in Workers |-> "ticker"]
  /\ value = [w \in Workers |-> 0]
  /\ errLog = [w \in Workers |-> 0]
  /\ issued = <<>>
  /\ attempts = <<>>

Running == halted = "no"

\* MuLock as it would be if mu did not exclude: the lock is taken even when held.
MuLockNoExclusion(w) ==
  /\ Running
  /\ pc[w] = "ticker"
  /\ mu' = w
  /\ pc' = [pc EXCEPT ![w] = "read"]
  /\ UNCHANGED <<count, insertTimeMu, insertTime, value, errLog, halted, issued, attempts, validateVars, taskVars>>

\* ticker.C fires, addEvent is called: mu.Lock()
MuLock(w) ==
  /\ Running
  /\ pc[w] = "ticker"
  /\ mu = NoOwner
  /\ mu' = w
  /\ pc' = [pc EXCEPT ![w] = "read"]
  /\ UNCHANGED <<count, insertTimeMu, insertTime, value, errLog, halted, issued, attempts, validateVars, taskVars>>

\* value := count; the reservation is appended to the run's history when
\* trace is set.
Reserve(w, trace) ==
  /\ Running
  /\ pc[w] = "read"
  /\ value' = [value EXCEPT ![w] = count]
  /\ issued' = IF trace THEN Append(issued, [value |-> count, worker |-> w]) ELSE issued
  /\ pc' = [pc EXCEPT ![w] = "inc"]
  /\ UNCHANGED <<count, mu, insertTimeMu, insertTime, errLog, halted, attempts, validateVars, taskVars>>

ReadCount(w) == Reserve(w, TRUE)

\* count++
IncCount(w) ==
  /\ Running
  /\ pc[w] = "inc"
  /\ count' = count + 1
  /\ pc' = [pc EXCEPT ![w] = "unlock"]
  /\ UNCHANGED <<mu, insertTimeMu, insertTime, value, errLog, halted, issued, attempts, validateVars, taskVars>>

\* MuUnlock that goes on without releasing mu.
MuUnlockKeep(w) ==
  /\ Running
  /\ pc[w] = "unlock"
  /\ pc' = [pc EXCEPT ![w] = "ledgerLock"]
  /\ UNCHANGED <<count, mu, insertTimeMu, insertTime, value, errLog, halted, issued, attempts, validateVars, taskVars>>

\* mu.Unlock()
MuUnlock(w) ==
  /\ Running
  /\ pc[w] = "unlock"
  /\ mu' = NoOwner
  /\ pc' = [pc EXCEPT ![w] = "ledgerLock"]
  /\ UNCHANGED <<count, insertTimeMu, insertTime, value, errLog, halted, issued, attempts, validateVars, taskVars>>

\* insertTimeMu.Lock()
LedgerLock(w) ==
  /\ Running
  /\ pc[w] = "ledgerLock"
  /\ insertTimeMu = NoOwner
  /\ insertTimeMu' = w
  /\ pc' = [pc EXCEPT ![w] = "ledgerWrite"]
  /\ UNCHANGED <<count, mu, insertTime, value, errLog, halted, issued, attempts, validateVars, taskVars>>

\* LedgerWrite that stores nothing.
LedgerWriteNone(w) ==
  /\ Running
  /\ pc[w] = "ledgerWrite"
  /\ insertTimeMu' = NoOwner
  /\ pc' = [pc EXCEPT ![w] = "mutate"]
  /\ UNCHANGED <<count, mu, insertTime, value, errLog, halted, issued, attempts, validateVars, taskVars>>

\* insertTime[int(value)] = time.Now(); insertTimeMu.Unlock()
LedgerWrite(w) ==
  /\ Running
  /\ pc[w] = "ledgerWrite"
  /\ insertTime' = insertTime \cup {IntOf(value[w])}
  /\ insertTimeMu' = NoOwner
  /\ pc' = [pc EXCEPT ![w] = "mutate"]
  /\ UNCHANGED <<count, mu, value, errLog, halted, issued, attempts, validateVars, taskVars>>

\* client.MutateRaw(...) is sent to a node picked at random (the model's
\* answers do not depend on the node); the request is appended to the run's
\* history when trace is set.
Send(w, trace) ==
  /\ Running
  /\ pc[w] = "mutate"
  /\ attempts' = IF trace THEN Append(attempts, [value |-> value[w], worker |-> w]) ELSE attempts
  /\ pc' = [pc EXCEPT ![w] = "await"]
  /\ UNCHANGED <<count, mu, insertTimeMu, insertTime, value, errLog, halted, issued, validateVars, taskVars>>

Mutate(w) == Send(w, TRUE)

\* What MutateRaw and json.Unmarshal can give back: err is the RPC error,
\* parseErr the Unmarshal error, event the decoded response.AddEvent.Event
\* (json.Unmarshal fills what it can before it reports a type error).
\* The echoed values are the value written or another one.
EchoLists(v) == UNION {[1..n -> {v, v + 1}] : n \in 0..MaxEchoLen}
Responses(v) == [err : BOOLEAN, parseErr : BOOLEAN, event : EchoLists(v)]

\* Lines addEvent appends to the worker's error log for response r.
LogLines(r, v) ==
  (IF r.err THEN 1 ELSE 0) + (IF r.parseErr THEN 1 ELSE 0)
  + (IF Len(r.event) # 1 THEN 1 ELSE IF r.event[1] # v THEN 1 ELSE 0)

\* Mismatch that never finds a difference.
MismatchNever(r, v) == FALSE

\* The echoed value differs from the reserved one: addEvent panics.
Mismatch(r, v) == Len(r.event) = 1 /\ r.event[1] # v

\* Stops with the comparison off by one.
StopsAbove(v) == v > MAX_EVENTS

\* The worker's loop test after addEvent returned v: `eventValue >= MAX_EVENTS`.
Stops(v) == v >= MAX_EVENTS

\* NextPc as it would be if a write that echoed no single record were retried.
NextPcRetry(r, v) ==
  IF Len(r.event) # 1 THEN "mutate" ELSE IF v >= MAX_EVENTS THEN "done" ELSE "ticker"

\* Where the worker goes when addEvent has returned v after response r: out of
\* the loop, or back to wait for the next tick (whatever the response was).
NextPc(r, v) == IF Stops(v) THEN "done" ELSE "ticker"

\* The rest of addEvent once MutateRaw has returned r, and the worker's loop
\* test; the lines written to the error log are counted when trace is set.
Returned(w, r, trace) ==
  /\ Running
  /\ pc[w] = "await"
  /\ errLog' = IF trace THEN [errLog EXCEPT ![w] = @ + LogLines(r, value[w])] ELSE errLog
  /\ IF Mismatch(r, value[w])
       THEN /\ halted' = "panic"
            /\ pc' = pc
       ELSE /\ halted' = halted
            /\ pc' = [pc EXCEPT ![w] = NextPc(r, value[w])]
  /\ UNCHANGED <<count, mu, insertTimeMu, insertTime, value, issued, attempts, validateVars, taskVars>>

Handle(w, r) == Returned(w, r, TRUE)

\* MutateRaw returns; the rest of addEvent, and the worker's loop test.
Respond(w) == \E r \in Responses(value[w]) : Handle(w, r)

addEvent(w) ==
  \/ MuLock(w) \/ ReadCount(w) \/ IncCount(w) \/ MuUnlock(w)
  \/ LedgerLock(w) \/ LedgerWrite(w) \/ Mutate(w) \/ Respond(w)

runEventSimulator == \E w \in Workers : addEvent(w)

\* The same steps without the run's history (reservations, requests, log
\* lines), for the specification of the whole program.
QuietReadCount(w) == Reserve(w, FALSE)
QuietMutate(w) == Send(w, FALSE)
QuietRespond(w) == \E r \in Responses(value[w]) : Returned(w, r, FALSE)

Worker(w) ==
  \/ MuLock(w) \/ QuietReadCount(w) \/ IncCount(w) \/ MuUnlock(w)
  \/ LedgerLock(w) \/ LedgerWrite(w) \/ QuietMutate(w) \/ QuietRespond(w)

\* ------------------------------------------------------- validation engine
Absent == -1            \* missingCount has no entry for the server

\* Values a row's uint64 `value` field can carry: the small ones, and one that
\* int() turns negative.
RowValues == (0..MaxHwm) \cup {2 * SignBit - 1}

\* Pages of rows with values in vals that queryEventPage can return when
\* `done` of at most `rows` rows were already enumerated.
PagesOver(vals, rows, done) ==
  LET most == IF rows - done < pageSize THEN rows - done ELSE pageSize
  IN  UNION {[1..n -> vals] : n \in 0..most}

Pages(done) == PagesOver(RowValues, MaxRows, done)

InitValidate ==
  /\ vpc = "idle"
  /\ final = FALSE
  /\ node = 0
  /\ highWaterMark = 0
  /\ seen = <<>>
  /\ countSeen = 0
  /\ outOfRange = 0
  /\ missed = 0
  /\ max = 0
  /\ offset = 0
  /\ events = <<>>
  /\ verdict = "none"
  /\ missingCount = [s \in servers |-> Absent]
  /\ observed = <<>>
  /\ validated = <<>>
  /\ missingCountMu = NoOwner

\* The goroutine that runs validate: main for the final pass, the scheduler
\* for the others.
Validator == IF final THEN Main ELSE Scheduler

\* Entry of validate(ctx, clients, f): the loop over clients starts at the
\* first node.
Enter(f) ==
  /\ vpc = "idle"
  /\ final' = f
  /\ node' = 1
  /\ validated' = <<>>
  /\ vpc' = "aggregate"
  /\ UNCHANGED <<highWaterMark, seen, countSeen, outOfRange, missed, max, offset, events,
                 verdict, missingCount, observed>>

\* validate(ctx, clients, f) is called: by the scheduler with f = FALSE, by
\* main with f = TRUE.
CallValidate(f) ==
  /\ Running
  /\ Enter(f)
  /\ UNCHANGED <<halted, writerVars, taskVars>>

\* os.Exit(1) after a failed query
QueryFailed ==
  /\ Running
  /\ vpc \in {"aggregate", "page"}
  /\ halted' = "exit"
  /\ UNCHANGED <<validateVars, writerVars, taskVars>>

\* highWaterMark, err := queryAggregateCount(...) with err == nil and a count
\* of marks, and the initialisation of the locals.
AggregateReturns(marks) ==
  /\ Running
  /\ vpc = "aggregate"
  /\ \E h \in marks :
       /\ highWaterMark' = h
       /\ seen' = [k \in 0..(h - 1) |-> FALSE]
  /\ validated' = Append(validated, node)
  /\ countSeen' = 0
  /\ outOfRange' = 0
  /\ missed' = 0
  /\ max' = 0
  /\ offset' = 0
  /\ events' = <<>>
  /\ verdict' = "none"
  /\ observed' = <<>>
  /\ vpc' = "page"
  /\ UNCHANGED <<final, node, missingCount, halted, writerVars, taskVars>>

QueryAggregate == AggregateReturns(0..MaxHwm)

\* events, err := queryEventPage(ctx, client, pageSize, offset) with err == nil
\* and one of pages; an empty page ends the enumeration.
PageReturns(pages) ==
  /\ Running
  /\ vpc = "page"
  /\ \E page \in pages :
       /\ events' = page
       /\ vpc' = IF Len(page) = 0 THEN "report" ELSE "rows"
  /\ UNCHANGED <<final, node, highWaterMark, seen, countSeen, outOfRange, missed, max, offset,
                 verdict, missingCount, observed, validated, halted, writerVars, taskVars>>

QueryPage == PageReturns(Pages(Len(observed)))

\* Classify without the duplicate test: a value seen before counts again.
ClassifyNoDuplicate(v, h, f, s) ==
  IF v < 0 THEN "negative"
  ELSE IF v >= h /\ f THEN "outOfRange"
  ELSE IF v >= h /\ ~f THEN "skipped"
  ELSE "new"

\* Classify with the range check of the final pass applied in every pass.
ClassifyAlwaysFinal(v, h, f, s) ==
  IF v < 0 THEN "negative"
  ELSE IF v >= h THEN "outOfRange"
  ELSE IF s[v] THEN "duplicate"
  ELSE "new"

\* Which branch of the loop body a row of int value v takes.
Classify(v, h, f, s) ==
  IF v < 0 THEN "negative"
  ELSE IF v >= h /\ f THEN "outOfRange"
  ELSE IF v >= h /\ ~f THEN "skipped"
  ELSE IF s[v] THEN "duplicate"
  ELSE "new"

\* LoopBody that does not count a value at or above the high-water mark as
\* out of range.
LoopBodyUncounted(a, u, h, f) ==
  LET v == IntOf(u)
      c == Classify(v, h, f, a.seen)
  IN  [countSeen  |-> IF c \in {"outOfRange", "new"} THEN a.countSeen + 1 ELSE a.countSeen,
       outOfRange |-> IF c = "negative" THEN a.outOfRange + 1 ELSE a.outOfRange,
       seen       |-> IF c = "new" THEN [a.seen EXCEPT ![v] = TRUE] ELSE a.seen,
       max        |-> IF c = "new" /\ v > a.max THEN v ELSE a.max,
       duplicate  |-> c = "duplicate"]

\* The body of `for _, event := range events` on the locals a and the row u.
LoopBody(a, u, h, f) ==
  LET v == IntOf(u)
      c == Classify(v, h, f, a.seen)
  IN  [countSeen  |-> IF c \in {"outOfRange", "new"} THEN a.countSeen + 1 ELSE a.countSeen,
       outOfRange |-> IF c \in {"negative", "outOfRange"} THEN a.outOfRange + 1 ELSE a.outOfRange,
       seen       |-> IF c = "new" THEN [a.seen EXCEPT ![v] = TRUE] ELSE a.seen,
       max        |-> IF c = "new" /\ v > a.max THEN v ELSE a.max,
       duplicate  |-> c = "duplicate"]

Locals == [countSeen |-> countSeen, outOfRange |-> outOfRange, seen |-> seen, max |-> max,
           duplicate |-> FALSE]

\* One iteration of `for _, event := range events` (a duplicate ends the
\* process with os.Exit(1)); after the last row of the page, offset += pageSize.
ProcessEvent ==
  /\ Running
  /\ vpc = "rows"
  /\ LET a == LoopBody(Locals, Head(events), highWaterMark, final)
     IN  /\ observed' = Append(observed, Head(events))
         /\ events' = Tail(events)
         /\ countSeen' = a.countSeen
         /\ outOfRange' = a.outOfRange
         /\ seen' = a.seen
         /\ max' = a.max
         /\ IF a.duplicate
              THEN /\ halted' = "exit"
                   /\ verdict' = "duplicate"
                   /\ UNCHANGED <<offset, vpc>>
              ELSE /\ halted' = halted
                   /\ verdict' = verdict
                   /\ offset' = IF Len(events) = 1 THEN offset + pageSize ELSE offset
                   /\ vpc' = IF Len(events) = 1 THEN "page" ELSE "rows"
  /\ UNCHANGED <<final, node, highWaterMark, missed, missingCount, validated, writerVars, taskVars>>

\* The loop `for value, ok := range seen`: the number of indices not seen.
Missed(s) == Cardinality({k \in DOMAIN s : ~s[k]})

\* What validate prints after the enumeration.
Outcome(cs, h, oor, m) ==
  IF cs # h THEN "mismatch"
  ELSE IF oor > 0 \/ m > 0 THEN "failed"
  ELSE "passed"

\* Record that stores a count only for a failed pass.
RecordOnlyFailed(tab, i, o, m) == IF o = "failed" THEN [tab EXCEPT ![i] = m] ELSE tab

\* The missing-count table after a node's pass: updated unless the pass ended
\* at `continue` on a count mismatch.
Record(tab, i, o, m) == IF o = "mismatch" THEN tab ELSE [tab EXCEPT ![i] = m]

\* After the enumeration: the missing values are counted (each looked up in
\* insertTime under insertTimeMu) and the count is compared; on a mismatch
\* the diagnostic is printed and the loop continues with the next node.
Report ==
  /\ Running
  /\ vpc = "report"
  /\ LET m == Missed(seen)
         o == Outcome(countSeen, highWaterMark, outOfRange, m)
     IN  /\ m > 0 => insertTimeMu = NoOwner
         /\ missed' = m
         /\ verdict' = IF o = "mismatch" THEN o ELSE verdict
         /\ vpc' = IF o = "mismatch" THEN "next" ELSE "tableLock"
  /\ UNCHANGED <<final, node, highWaterMark, seen, countSeen, outOfRange, max, offset, events,
                 missingCount, observed, validated, halted, writerVars, taskVars>>

\* missingCountMu.Lock()
TableLock ==
  /\ Running
  /\ vpc = "tableLock"
  /\ missingCountMu = NoOwner
  /\ missingCountMu' = Validator
  /\ vpc' = "tableWrite"
  /\ UNCHANGED <<final, node, highWaterMark, seen, countSeen, outOfRange, missed, max, offset,
                 events, verdict, missingCount, observed, validated, halted, writerVars,
                 mainpc, schedVars, reportVars, metricsVars>>

\* missingCount[servers[i]] = missed; missingCountMu.Unlock(); the verdict is
\* printed.
TableWrite ==
  /\ Running
  /\ vpc = "tableWrite"
  /\ LET o == Outcome(countSeen, highWaterMark, outOfRange, missed)
     IN  /\ missingCount' = Record(missingCount, node, o, missed)
         /\ verdict' = o
  /\ missingCountMu' = NoOwner
  /\ vpc' = "next"
  /\ UNCHANGED <<final, node, highWaterMark, seen, countSeen, outOfRange, missed, max, offset,
                 events, observed, validated, halted, writerVars,
                 mainpc, schedVars, reportVars, metricsVars>>

\* The next iteration of `for i, client := range clients`, or validate returns.
NextNode ==
  /\ Running
  /\ vpc = "next"
  /\ IF node < NumServers
       THEN /\ node' = node + 1
            /\ vpc' = "aggregate"
       ELSE /\ node' = 0
            /\ vpc' = IF final THEN "returned" ELSE "idle"
  /\ highWaterMark' = 0
  /\ seen' = <<>>
  /\ countSeen' = 0
  /\ outOfRange' = 0
  /\ missed' = 0
  /\ max' = 0
  /\ offset' = 0
  /\ events' = <<>>
  /\ verdict' = "none"
  /\ observed' = <<>>
  /\ UNCHANGED <<final, missingCount, validated, halted, writerVars, taskVars>>

validate ==
  \/ QueryAggregate \/ QueryPage \/ ProcessEvent \/ Report \/ TableLock \/ TableWrite
  \/ NextNode \/ QueryFailed

\* ------------------------------------------- scheduler, reporter, main, metrics
InitTasks ==
  /\ spc = "ticker"
  /\ nextValidationAt = VALIDATION_INTERVAL
  /\ passes = <<>>
  /\ rpc = "ticker"
  /\ remaining = 0
  /\ mainpc = "wait"
  /\ mpc = "idle"
  /\ dbCount = 0
  /\ mleft = {}

\* case <-ticker.C of the scheduler's select
SchedTick ==
  /\ Running
  /\ spc = "ticker"
  /\ spc' = "poll"
  /\ UNCHANGED <<nextValidationAt, passes, halted, writerVars, validateVars,
                 missingCountMu, mainpc, reportVars, metricsVars>>

\* SchedPoll without the test against the threshold.
SchedPollEager ==
  /\ Running
  /\ spc = "poll"
  /\ mu = NoOwner
  /\ IF count >= MAX_EVENTS
       THEN /\ spc' = "done"
            /\ UNCHANGED <<passes, validateVars>>
       ELSE /\ spc' = "validating"
            /\ passes' = Append(passes, [threshold |-> nextValidationAt, sample |-> count])
            /\ Enter(FALSE)
  /\ UNCHANGED <<nextValidationAt, halted, writerVars, missingCountMu, mainpc, reportVars,
                 metricsVars>>

\* One round of the inner loop up to the call: currentCount := getCount()
\* (mu is taken and released), return at the ceiling, break below the
\* threshold, else validate(ctx, clients, false) is entered.
SchedPoll ==
  /\ Running
  /\ spc = "poll"
  /\ mu = NoOwner
  /\ IF count >= MAX_EVENTS
       THEN /\ spc' = "done"
            /\ UNCHANGED <<passes, validateVars>>
       ELSE IF count < nextValidationAt
       THEN /\ spc' = "ticker"
            /\ UNCHANGED <<passes, validateVars>>
       ELSE /\ spc' = "validating"
            /\ passes' = Append(passes, [threshold |-> nextValidationAt, sample |-> count])
            /\ Enter(FALSE)
  /\ UNCHANGED <<nextValidationAt, halted, writerVars, missingCountMu, mainpc, reportVars,
                 metricsVars>>

\* SchedResume that advances the threshold by two intervals.
SchedResumeSkip ==
  /\ Running
  /\ spc = "validating"
  /\ vpc = "idle"
  /\ nextValidationAt' = nextValidationAt + 2 * VALIDATION_INTERVAL
  /\ spc' = "poll"
  /\ UNCHANGED <<passes, halted, writerVars, validateVars, missingCountMu, mainpc,
                 reportVars, metricsVars>>

\* validate has returned: nextValidationAt += VALIDATION_INTERVAL, and the
\* inner loop goes round.
SchedResume ==
  /\ Running
  /\ spc = "validating"
  /\ vpc = "idle"
  /\ nextValidationAt' = nextValidationAt + VALIDATION_INTERVAL
  /\ spc' = "poll"
  /\ UNCHANGED <<passes, halted, writerVars, validateVars, missingCountMu, mainpc,
                 reportVars, metricsVars>>

runValidationScheduler == SchedTick \/ SchedPoll \/ SchedResume

Uint64 == 2 * SignBit   \* uint64 arithmetic is modulo this

\* MAX_EVENTS - c in uint64.
Remaining(c) == (MAX_EVENTS - c) % Uint64

\* case <-ticker.C of the reporter: currentCount := getCount() (mu is taken
\* and released), remaining := MAX_EVENTS - currentCount, the line is
\* printed, and the reporter returns at the ceiling; the figure computed is
\* kept when trace is set.
Sample(trace) ==
  /\ Running
  /\ rpc = "ticker"
  /\ mu = NoOwner
  /\ remaining' = IF trace THEN Remaining(count) ELSE remaining
  /\ rpc' = IF count >= MAX_EVENTS THEN "done" ELSE "ticker"
  /\ UNCHANGED <<halted, writerVars, validateVars, missingCountMu, mainpc, schedVars, metricsVars>>

runReporting == Sample(TRUE)

\* The same step without the figure, for the specification of the whole
\* program.
QuietReporting == Sample(FALSE)

\* Waited as it would be if the scheduler were not counted in the WaitGroup.
WaitedNoScheduler ==
  /\ \A w \in Workers : pc[w] = "done"
  /\ rpc = "done"

\* Waited as it would be if main waited for the reporter and the scheduler only.
WaitedTasksOnly ==
  /\ rpc = "done"
  /\ spc = "done"

\* The WaitGroup's counter is zero: the workers, the reporter and the
\* scheduler have all returned.
Waited ==
  /\ \A w \in Workers : pc[w] = "done"
  /\ rpc = "done"
  /\ spc = "done"

\* wg.Wait() returns and validate(ctx, clients, true) is entered.
MainFinal ==
  /\ Running
  /\ mainpc = "wait"
  /\ Waited
  /\ Enter(TRUE)
  /\ mainpc' = "final"
  /\ UNCHANGED <<halted, writerVars, missingCountMu, schedVars, reportVars, metricsVars>>

\* validate has returned: main returns, which ends the process.
MainReturn ==
  /\ Running
  /\ mainpc = "final"
  /\ vpc = "returned"
  /\ mainpc' = "exited"
  /\ halted' = "end"
  /\ UNCHANGED <<writerVars, validateVars, missingCountMu, schedVars, reportVars, metricsVars>>

main == MainFinal \/ MainReturn

\* A write of missingCount is in progress: an unlocked access now races with it.
Raced == vpc = "tableWrite"

\* What an access of the map by the handler can do to the process: nothing,
\* or, when it races with a write, the runtime's fatal error "concurrent map
\* iteration and map write".
AfterRead == {halted} \cup (IF Raced THEN {"fatal"} ELSE {})

\* A request arrives: mu.Lock(); dbCount := count; mu.Unlock(), and the
\* handler gets to `for server, missed := range missingCount`.
MetricsCount ==
  /\ Running
  /\ mpc = "idle"
  /\ mu = NoOwner
  /\ dbCount' = count
  /\ mleft' = {s \in servers : missingCount[s] # Absent}
  /\ mpc' = "range"
  /\ UNCHANGED <<halted, writerVars, validateVars, missingCountMu, mainpc, schedVars, reportVars>>

\* One iteration of the range loop: an entry is read (missingCountMu is not
\* taken) and written to the response.
MetricsEntry ==
  /\ Running
  /\ mpc = "range"
  /\ \E s \in mleft : mleft' = mleft \ {s}
  /\ halted' \in AfterRead
  /\ UNCHANGED <<mpc, dbCount, writerVars, validateVars, missingCountMu, mainpc, schedVars,
                 reportVars>>

\* The range loop finds no further entry; events_total is written and the
\* handler returns.
MetricsTotal ==
  /\ Running
  /\ mpc = "range"
  /\ mleft = {}
  /\ halted' \in AfterRead
  /\ mpc' = "idle"
  /\ UNCHANGED <<dbCount, mleft, writerVars, validateVars, missingCountMu, mainpc, schedVars,
                 reportVars>>

metrics == MetricsCount \/ MetricsEntry \/ MetricsTotal

\* ---------------------------------------------------------- specifications
Init ==
  /\ InitWriters
  /\ InitValidate
  /\ InitTasks
  /\ halted = "no"

\* The writer pool.
Next == runEventSimulator

Spec == Init /\ [][Next]_vars

\* The writer pool with its scheduling: a ticker keeps firing, a call returns
\* (every RPC has the client's 30 s timeout), and a goroutine that waits for a
\* sync.Mutex gets it (the mutex hands over to starved waiters).
SpecFair ==
  /\ Spec
  /\ \A w \in Workers : SF_vars(addEvent(w))

\* The validation engine: any number of non-final passes, then the final pass.
NextValidate ==
  \/ \E f \in BOOLEAN : CallValidate(f)
  \/ validate

SpecValidate == Init /\ [][NextValidate]_vars

\* The validation engine with requests to the metrics endpoint arriving.
NextMetrics == NextValidate \/ metrics

SpecMetrics == Init /\ [][NextMetrics]_vars

\* The backend's answers to validate in the specification of the whole
\* program. The tasks' scheduling does not read them (what validate makes of
\* its rows is the matter of SpecValidate), so they are drawn from the
\* smallest sets that take validate through all its steps: a node reports
\* the aggregate count 0 and returns up to RunRows rows of value 0, which a
\* non-final pass skips and the final pass counts out of range.
RunMarks == {0}
RunValues == {0}
RunAggregate == AggregateReturns(RunMarks)
RunPage == PageReturns(PagesOver(RunValues, RunRows, Len(observed)))

validateRun ==
  \/ RunAggregate \/ RunPage \/ ProcessEvent \/ Report \/ TableLock \/ TableWrite
  \/ NextNode \/ QueryFailed

\* The whole program as main starts it: the workers, the reporter and the
\* scheduler run concurrently, main waits for them and runs the final pass.
NextRun ==
  \/ \E w \in Workers : Worker(w)
  \/ runValidationScheduler
  \/ QuietReporting
  \/ validateRun
  \/ main

SpecRun == Init /\ [][NextRun]_vars

\* The reporter beside the workers.
NextReport ==
  \/ \E w \in Workers : Worker(w)
  \/ runReporting

SpecReport == Init /\ [][NextReport]_vars

\* The whole program with its scheduling: tickers keep firing, calls return,
\* and a goroutine that waits for a sync.Mutex gets it, so every goroutine
\* that can take a step again and again does take one.
SpecRunFair ==
  /\ SpecRun
  /\ \A w \in Workers : SF_vars(Worker(w))
  /\ SF_vars(runValidationScheduler)
  /\ SF_vars(QuietReporting)
  /\ SF_vars(validateRun)
  /\ WF_vars(main)

TypeOK ==
  /\ count \in 0..MaxCount
  /\ mu \in Tasks \cup {NoOwner}
  /\ insertTimeMu \in Tasks \cup {NoOwner}
  /\ missingCountMu \in Tasks \cup {NoOwner}
  /\ insertTime \subseteq 0..MaxCount
  /\ pc \in [Workers -> {"ticker", "read", "inc", "unlock", "ledgerLock", "ledgerWrite", "mutate", "await", "done"}]
  /\ value \in [Workers -> 0..MaxCount]
  /\ halted \in {"no", "panic", "exit", "fatal", "end"}
  /\ Len(issued) <= MaxCount
  /\ Len(attempts) <= MaxCount
  /\ vpc \in {"idle", "aggregate", "page", "rows", "report", "tableLock", "tableWrite",
              "next", "returned"}
  /\ final \in BOOLEAN
  /\ node \in 0..NumServers
  /\ highWaterMark \in 0..MaxHwm
  /\ countSeen \in 0..MaxRows
  /\ outOfRange \in 0..MaxRows
  /\ missed \in 0..MaxHwm
  /\ verdict \in {"none", "mismatch", "passed", "failed", "duplicate"}
  /\ missingCount \in [servers -> {Absent} \cup (0..MaxHwm)]
  /\ Len(observed) + Len(events) <= MaxRows
  /\ Len(validated) <= NumServers
  /\ spc \in {"ticker", "poll", "validating", "done"}
  /\ nextValidationAt \in 1..(MAX_EVENTS + VALIDATION_INTERVAL)
  /\ Len(passes) <= MAX_EVENTS
  /\ rpc \in {"ticker", "done"}
  /\ remaining \in 0..(Uint64 - 1)
  /\ mainpc \in {"wait", "final", "exited"}
  /\ mpc \in {"idle", "range"}
  /\ dbCount \in 0..MaxCount
  /\ mleft \subseteq servers
\* ------------------------------------------------------------------ claims
IssuedValues == {issued[i].value : i \in 1..Len(issued)}
AllStopped == \A w \in Workers : pc[w] = "done"

\* C1: no two reservations return the same value, the values are strictly
\* increasing in issue order, and after K reservations the set of reserved
\* values is exactly {0,...,K-1}.
C1_ReservationsDense ==
  /\ \A i, j \in 1..Len(issued) : i < j => issued[i].value < issued[j].value
  /\ IssuedValues = 0..(Len(issued) - 1)

\* Both workers have reserved, and the counter has been driven to its end.
C1_Witness ==
  /\ Len(issued) = MaxCount
  /\ \E i, j \in 1..Len(issued) : issued[i].worker # issued[j].worker

\* C2 as stated: when all workers have stopped, the reserved values are
\* exactly {0,...,MAX_EVENTS-1} (nothing at or above the ceiling is reserved).
C2_Original == AllStopped => IssuedValues = 0..(MAX_EVENTS - 1)

\* C2 amended: when all workers have stopped, the reserved values are exactly
\* {0,...,MAX_EVENTS+WORKERS-1}, without duplicate or gap: every worker has
\* reserved exactly one value at or above the ceiling (the one that stopped it).
C2_UnionWithOvershoot ==
  AllStopped =>
    /\ IssuedValues = 0..(MAX_EVENTS + WORKERS - 1)
    /\ Len(issued) = MAX_EVENTS + WORKERS
    /\ \A w \in Workers :
         Cardinality({i \in 1..Len(issued) :
                        issued[i].worker = w /\ issued[i].value >= MAX_EVENTS}) = 1

\* Every worker has stopped, and the run was shared between the workers.
C2_Witness ==
  /\ AllStopped
  /\ \E i \in 1..Len(issued) : issued[i].value < MAX_EVENTS /\ issued[i].worker = 1
  /\ \E i \in 1..Len(issued) : issued[i].value < MAX_EVENTS /\ issued[i].worker = 2

\* The reservation issued[i] is still on its way to the write call.
Pending(i) ==
  /\ value[issued[i].worker] = issued[i].value
  /\ pc[issued[i].worker] \in {"inc", "unlock", "ledgerLock", "ledgerWrite", "mutate"}

WritesOf(v) == {k \in 1..Len(attempts) : attempts[k].value = v}

\* C10: a reserved value is sent to a backend node as a write at most once at
\* any time, exactly once as soon as its worker has got to the write call, and
\* only by the worker that reserved it; nothing else is ever sent, so a failed
\* write is never sent again.
C10_WrittenOnce ==
  /\ \A i \in 1..Len(issued) :
       /\ Cardinality(WritesOf(issued[i].value)) <= 1
       /\ \A k \in WritesOf(issued[i].value) : attempts[k].worker = issued[i].worker
       /\ ~Pending(i) => Cardinality(WritesOf(issued[i].value)) = 1
  /\ \A k \in 1..Len(attempts) : attempts[k].value \in IssuedValues

\* A write has failed (a line was logged), and the run went on to its end:
\* every reserved value was written once.
C10_Witness ==
  /\ AllStopped
  /\ \E w \in Workers : errLog[w] > 0
  /\ Len(attempts) = MaxCount
\* The pass on the current node has completed: validate has printed its line
\* for the node and is about to go on to the next one.
Completed == vpc = "next"
InPass == vpc \in {"page", "rows", "report", "tableLock", "tableWrite", "next"}

\* Number of rows whose value is at or above the high-water mark.
High(rows) == Cardinality({k \in 1..Len(rows) : IntOf(rows[k]) >= highWaterMark})

\* C3 as stated: in a completed final pass, (outOfRange = 0 and missing = 0)
\* if and only if countSeen = highWaterMark.
C3_Original ==
  (Completed /\ final) => ((outOfRange = 0 /\ missed = 0) <=> countSeen = highWaterMark)

\* C3 amended: in a completed final pass, outOfRange = 0 and missing = 0 imply
\* countSeen = highWaterMark (the converse does not hold).
C3_CleanImpliesCount ==
  (Completed /\ final) => ((outOfRange = 0 /\ missed = 0) => countSeen = highWaterMark)

\* A final pass that found nothing wrong on a node reporting MaxHwm rows.
C3_Witness ==
  /\ Completed /\ final
  /\ outOfRange = 0 /\ missed = 0
  /\ highWaterMark = MaxHwm /\ Len(observed) = MaxHwm

\* C4 as stated: a completed pass in which an index of [0, highWaterMark) was
\* not observed has the verdict 'failed' and records the number of unobserved
\* indices as the node's missing count.
C4_MissingFails ==
  (Completed /\ Missed(seen) > 0) =>
    (verdict = "failed" /\ missingCount[node] = Missed(seen))

\* C5 as stated: in a completed final pass, every observed value at or above
\* the high-water mark is counted out of range and the verdict is 'failed'.
C5_HighFailsFinal ==
  (Completed /\ final /\ High(observed) > 0) =>
    (outOfRange >= High(observed) /\ verdict = "failed")

\* The locals right after `seen` is filled with false.
Fresh(h) == [countSeen |-> 0, outOfRange |-> 0, seen |-> [k \in 0..(h - 1) |-> FALSE],
             max |-> 0, duplicate |-> FALSE]

\* The loop body run over rows, up to the first duplicate.
RECURSIVE Tally(_, _, _, _)
Tally(rows, a, h, f) ==
  IF rows = <<>> \/ a.duplicate THEN a
  ELSE Tally(Tail(rows), LoopBody(a, Head(rows), h, f), h, f)

\* rows without the values at or above h.
Below(rows, h) == SelectSeq(rows, LAMBDA u : IntOf(u) < h)

\* C6: at every point of a non-final pass the locals are what the pass would
\* have computed from the rows enumerated so far with all values at or above
\* the high-water mark removed, and so are the missing count and the verdict
\* when it completes.
C6_NonFinalIgnoresHigh ==
  (InPass /\ ~final) =>
    LET t == Tally(Below(observed, highWaterMark), Fresh(highWaterMark), highWaterMark, FALSE)
    IN  /\ countSeen = t.countSeen
        /\ outOfRange = t.outOfRange
        /\ seen = t.seen
        /\ max = t.max
        /\ (verdict = "duplicate") = t.duplicate
        /\ Completed =>
             /\ missed = Missed(t.seen)
             /\ verdict = Outcome(t.countSeen, highWaterMark, t.outOfRange, Missed(t.seen))

\* A non-final pass that met a value at or above the high-water mark and passed.
C6_Witness ==
  /\ Completed /\ ~final
  /\ High(observed) > 0
  /\ highWaterMark > 0
  /\ verdict = "passed"

\* Row k is a second occurrence of a value of [0, highWaterMark).
Repeat(k) ==
  /\ IntOf(observed[k]) \in 0..(highWaterMark - 1)
  /\ \E j \in 1..(k - 1) : observed[j] = observed[k]

C7_Inv ==
  /\ (InPass /\ verdict # "duplicate") => \A k \in 1..Len(observed) : ~Repeat(k)
  /\ verdict = "duplicate" =>
       /\ halted = "exit"
       /\ vpc = "rows"
       /\ missed = 0
       /\ Len(observed) > 0
       /\ Repeat(Len(observed))
       /\ \A k \in 1..(Len(observed) - 1) : ~Repeat(k)

\* C7: in any pass the first second occurrence of a value of
\* [0, highWaterMark) ends the process at that row (it is the last row
\* processed, so the duplicate reported is determined by the rows), no pass
\* goes on past a second occurrence, no verdict or missing count is recorded
\* for the node, and nothing happens once the process has ended.
C7_DuplicateAborts ==
  /\ []C7_Inv
  /\ [][verdict' = "duplicate" => missingCount' = missingCount]_vars
  /\ [][halted # "no" => UNCHANGED vars]_vars

\* The process has ended on a duplicate with rows of the page unprocessed and
\* a node not yet validated.
C7_Witness ==
  /\ verdict = "duplicate"
  /\ Len(events) > 0
  /\ node < NumServers

\* The rows enumerated are exactly each value of 0..h-1 once.
Exactly(h) ==
  /\ Len(observed) = h
  /\ {observed[k] : k \in 1..Len(observed)} = 0..(h - 1)

\* C8: a completed pass (final or not) whose enumeration gave each value of
\* 0..highWaterMark-1 exactly once has countSeen = highWaterMark, missing = 0,
\* outOfRange = 0, the verdict 'passed' and the node's missing count set to 0.
C8_CompletePasses ==
  (Completed /\ Exactly(highWaterMark)) =>
    /\ countSeen = highWaterMark
    /\ missed = 0
    /\ outOfRange = 0
    /\ verdict = "passed"
    /\ missingCount[node] = 0

\* A final pass over a node holding each of 0..MaxHwm-1 once.
C8_Witness ==
  /\ Completed /\ final
  /\ highWaterMark = MaxHwm
  /\ Exactly(highWaterMark)

\* C9 as stated: after every completed pass on a node the node's entry in the
\* missing-count table is the number of missing indices that pass found.
C9_TableIsLatest == Completed => missingCount[node] = missed
\* The write answered by r has failed: an RPC error, a response that does not
\* parse, or not exactly one echoed record.
Failed(r) == r.err \/ r.parseErr \/ Len(r.event) # 1

\* C12 as stated: a failed write never aborts the process, whatever payload
\* came with the failure: it is logged and the worker goes on to its next tick
\* (or leaves its loop).
C12_FailureNeverAborts ==
  [][\A w \in Workers : \A r \in Responses(value[w]) :
       (Handle(w, r) /\ Failed(r)) =>
          /\ halted' = "no"
          /\ errLog'[w] > errLog[w]
          /\ pc'[w] \in {"ticker", "done"}]_vars

\* C13: a response with exactly one echoed record whose value differs from the
\* reserved one ends the process, and nothing happens afterwards; with the
\* echoed value equal to the reserved one the worker goes on (next tick, or out
\* of its loop at the ceiling).
C13_MismatchPanics ==
  /\ [][\A w \in Workers :
          (pc[w] = "await" /\ (pc'[w] # "await" \/ halted' # halted)) =>
            \A r \in Responses(value[w]) :
              \* the step is not the handling of a response r that should have
              \* ended otherwise
              /\ (Len(r.event) = 1 /\ r.event[1] # value[w] /\ halted' # "panic")
                   => ~Handle(w, r)
              /\ (Len(r.event) = 1 /\ r.event[1] = value[w] /\
                    ~(halted' = "no" /\
                      pc'[w] = IF value[w] >= MAX_EVENTS THEN "done" ELSE "ticker"))
                   => ~Handle(w, r)]_vars
  /\ [][halted # "no" => UNCHANGED vars]_vars

\* The process has panicked while the other worker was about to write, and a
\* worker had gone on after a matching echo before.
C13_Witness ==
  /\ halted = "panic"
  /\ \E w \in Workers : pc[w] = "mutate"
  /\ Len(attempts) >= 2

\* C16: the ledger holds the key of every value whose write was issued, a key
\* once written stays, and no key is written a second time.
C16_LedgerFirst ==
  /\ [](\A k \in 1..Len(attempts) : IntOf(attempts[k].value) \in insertTime)
  /\ [][insertTime \subseteq insertTime']_vars
  /\ [][\A w \in Workers : LedgerWrite(w) => IntOf(value[w]) \notin insertTime]_vars

\* A write has failed, its key is in the ledger, and the run has ended with a
\* key for every reserved value.
C16_Witness ==
  /\ AllStopped
  /\ \E w \in Workers : errLog[w] > 0
  /\ insertTime = 0..(MaxCount - 1)

\* C19: a worker reserves nothing after its first reservation at or above the
\* ceiling, that value is still written, when all workers have stopped each has
\* reserved exactly one value at or above the ceiling and the counter is
\* MAX_EVENTS + WORKERS, and unless the process is aborted every worker stops.
C19_WorkersStop ==
  /\ [](\A i, j \in 1..Len(issued) :
          (i < j /\ issued[i].worker = issued[j].worker) => issued[i].value < MAX_EVENTS)
  /\ [](\A w \in Workers :
          pc[w] = "done" => (value[w] >= MAX_EVENTS /\ WritesOf(value[w]) # {}))
  /\ [](AllStopped =>
          /\ count = MAX_EVENTS + WORKERS
          /\ \A w \in Workers :
               Cardinality({i \in 1..Len(issued) :
                              issued[i].worker = w /\ issued[i].value >= MAX_EVENTS}) = 1)
  /\ <>(AllStopped \/ halted # "no")

\* All workers have stopped, the last one on the value MAX_EVENTS + WORKERS - 1.
C19_Witness ==
  /\ AllStopped
  /\ count = MAX_EVENTS + WORKERS
  /\ \E w \in Workers : value[w] = MAX_EVENTS + WORKERS - 1 /\ WritesOf(value[w]) # {}

\* C20: whenever a pass on a node withholds its verdict because
\* countSeen # highWaterMark, in final or non-final mode, outOfRange > 0 or
\* missing > 0 holds in that pass: at the comparison a count mismatch with no
\* other flag raised does not occur.
C20_MismatchHasFlag ==
  /\ verdict = "mismatch" =>
       (Completed /\ countSeen # highWaterMark /\ (outOfRange > 0 \/ missed > 0))
  /\ (vpc = "report" /\ countSeen # highWaterMark) => (outOfRange > 0 \/ Missed(seen) > 0)

\* A non-final pass that withheld its verdict with values missing and nothing
\* out of range.
C20_Witness ==
  /\ verdict = "mismatch"
  /\ ~final
  /\ missed > 0
  /\ outOfRange = 0
  /\ Len(observed) > 0

\* Task t holds one of the three mutexes.
Holds(t) == mu = t \/ insertTimeMu = t \/ missingCountMu = t

\* C18: no task holds mu, insertTimeMu or missingCountMu while its backend
\* call (write, aggregate-count query, page query) is in progress; whoever
\* holds mu is a worker between Lock and Unlock, so a call in progress never
\* keeps another task from reserving.
C18_NoLockAcrossCall ==
  /\ \A w \in Workers : pc[w] = "await" => ~Holds(w)
  /\ vpc \in {"aggregate", "page"} => ~Holds(Validator)
  /\ mu # NoOwner => (mu \in Workers /\ pc[mu] \in {"read", "inc", "unlock"})

\* A write and a page query are in progress while another worker reserves.
C18_Witness ==
  /\ \E w, v \in Workers : pc[w] = "await" /\ mu = v /\ pc[v] = "inc"
  /\ vpc = "page"
  /\ Len(passes) > 0

\* C17 as stated: every read and write of the counter, the ledger and the
\* missing-count table, by any task, is made while that task holds the
\* structure's mutex, and no state is reachable in which one task is writing
\* the missing-count table while another is accessing it without the lock.
C17_AccessesLocked ==
  /\ [][\A w \in Workers : (ReadCount(w) \/ IncCount(w)) => mu = w]_vars
  /\ [][\A w \in Workers : LedgerWrite(w) => insertTimeMu = w]_vars
  /\ [][TableWrite => missingCountMu = Validator]_vars
  /\ [][(MetricsEntry \/ MetricsTotal) => missingCountMu = Handler]_vars
  /\ [](Raced => mpc # "range")

\* The positive multiples of the validation interval up to c.
Multiples(c) == {m \in 1..c : m % VALIDATION_INTERVAL = 0}
PassRunFor(m) == \E k \in 1..Len(passes) : passes[k].threshold = m
AllNodes == [n \in 1..NumServers |-> n]

\* C14 as stated: for every positive multiple m of the validation interval
\* that the reservation count crosses during the run, a non-final pass is
\* run for m. (Once the scheduler has returned no pass can be started any
\* more, so every multiple crossed by then must have had its pass.)
C14_Original == spc = "done" => \A m \in Multiples(count) : PassRunFor(m)

\* C14 amended: the non-final passes are run for the thresholds I, 2I, 3I, ...
\* in order, one per multiple, each after a sample c of the count with
\* threshold <= c < MAX_EVENTS and each across every node; the scheduler goes
\* back to wait for a tick only when every multiple crossed by the count it
\* sampled has had its pass (also when several were crossed between two
\* polls). Multiples not validated when it samples a count at or above
\* MAX_EVENTS get no non-final pass.
C14_CatchUp ==
  /\ [](\A k \in 1..Len(passes) :
          /\ passes[k].threshold = k * VALIDATION_INTERVAL
          /\ passes[k].threshold <= passes[k].sample
          /\ passes[k].sample < MAX_EVENTS)
  /\ [][(spc = "poll" /\ spc' = "ticker") => \A m \in Multiples(count) : PassRunFor(m)]_vars
  /\ [][(spc = "validating" /\ spc' # "validating") => (validated = AllNodes /\ spc' = "poll")]_vars
  /\ [][spc = "done" => passes' = passes]_vars

\* Two multiples were crossed before the first poll, and each has had its
\* pass: the second one without a tick in between.
C14_Witness ==
  /\ Len(passes) = 2
  /\ passes[1].sample >= 2 * VALIDATION_INTERVAL
  /\ spc = "ticker"

\* C15 as stated: at every point of the run the number p of non-final passes
\* started satisfies p * VALIDATION_INTERVAL <= count, the next threshold is
\* (p+1) * VALIDATION_INTERVAL, and no non-final pass is started once the
\* scheduler has sampled a count at or above MAX_EVENTS.
C15_Original ==
  /\ [](Len(passes) * VALIDATION_INTERVAL <= count)
  /\ [](nextValidationAt = (Len(passes) + 1) * VALIDATION_INTERVAL)
  /\ [][spc = "done" => passes' = passes]_vars

\* C15 amended: as stated, except that the next threshold is
\* (p+1) * VALIDATION_INTERVAL only while no non-final pass is in progress;
\* from the start of the p-th pass until validate returns it is still
\* p * VALIDATION_INTERVAL.
C15_PassCount ==
  /\ [](Len(passes) * VALIDATION_INTERVAL <= count)
  /\ [](nextValidationAt = IF spc = "validating"
                             THEN Len(passes) * VALIDATION_INTERVAL
                             ELSE (Len(passes) + 1) * VALIDATION_INTERVAL)
  /\ [][spc = "done" => passes' = passes]_vars
  /\ [](spc = "done" => count >= MAX_EVENTS)

\* Two passes were run, the threshold stands at the third multiple, and the
\* scheduler has returned on a sample at or above MAX_EVENTS.
C15_Witness ==
  /\ Len(passes) = 2
  /\ spc = "done"
  /\ nextValidationAt = 3 * VALIDATION_INTERVAL

\* C11: the final pass is entered only by main and only when every worker
\* has stopped (and the reporter and the scheduler have returned), so never
\* while a reservation or a write is in flight and never beside a non-final
\* pass; main enters it once; when it returns it has validated every node
\* exactly once, in order; and every run that is not aborted gets there.
C11_OneFinalPass ==
  /\ [][(vpc = "idle" /\ vpc' # "idle" /\ final') => (mainpc = "wait" /\ mainpc' = "final")]_vars
  /\ [][mainpc # "wait" => mainpc' # "wait"]_vars
  /\ [](mainpc # "wait" => (AllStopped /\ spc = "done" /\ rpc = "done" /\ final))
  /\ [](vpc = "returned" => validated = AllNodes)
  /\ [][mainpc' = "exited" => vpc = "returned"]_vars
  /\ <>(mainpc = "exited" \/ halted # "no")

\* The run has ended normally after a non-final pass and the final pass.
C11_Witness ==
  /\ mainpc = "exited"
  /\ halted = "end"
  /\ Len(passes) > 0
  /\ validated = AllNodes

\* validate is being run (by whoever called it).
PassInProgress == vpc \notin {"idle", "returned"}

\* C21: at most one validation pass is in progress at any time. The
\* scheduler and main are never both inside validate; a pass in progress is
\* the scheduler's (non-final, main still waiting) or main's (final, the
\* scheduler returned); neither caller ever gets to its call of validate
\* while a pass is in progress; a pass is started only by the scheduler
\* (non-final) or by main (final); and missingCountMu is held only by the
\* caller of the one pass in progress, at its table write.
C21_OnePassAtATime ==
  /\ [](~(spc = "validating" /\ mainpc = "final"))
  /\ [](PassInProgress =>
          IF final THEN mainpc = "final" /\ spc = "done"
                   ELSE spc = "validating" /\ mainpc = "wait")
  /\ [](spc = "poll" => vpc = "idle")
  /\ []((Waited /\ mainpc = "wait") => vpc = "idle")
  /\ [][(~PassInProgress /\ PassInProgress') =>
           \/ (~final' /\ spc = "poll" /\ spc' = "validating" /\ mainpc = "wait")
           \/ (final' /\ mainpc = "wait" /\ mainpc' = "final" /\ spc = "done")]_vars
  /\ [](missingCountMu # NoOwner => (missingCountMu = Validator /\ vpc = "tableWrite"))

\* The final pass is at its table write, after the scheduler has run two
\* non-final passes.
C21_Witness ==
  /\ mainpc = "final"
  /\ vpc = "tableWrite"
  /\ missingCountMu = Main
  /\ Len(passes) = 2

\* C22 as stated: for every sample the reporter takes, the remaining-events
\* figure it computes lies in [0, MAX_EVENTS], also for samples taken after
\* the count has passed MAX_EVENTS: it never wraps around.
C22_RemainingInRange == [][runReporting => remaining' \in 0..MAX_EVENTS]_vars
====
